---------------------------- MODULE Spec2Model ----------------------------
(***************************************************************************)
(* A model of bambi/backends.py: the two model-fitting back ends of bambi. *)
(*                                                                         *)
(*   PyMC3BackEnd  builds a graph of named random variables (pm.Model)     *)
(*                 and an additive linear predictor mu;                    *)
(*   StanBackEnd   writes the statements of a Stan program into five       *)
(*                 lists, keeps the data payload X, compiles the program   *)
(*                 and converts the sampler's draws into a MultiTrace.     *)
(*                                                                         *)
(* Names are strings, built with \o exactly as the '%s_%s' formats build   *)
(* them, so that two terms whose names format to the same string collide   *)
(* in the model as they do in the program.  A statement of the Stan        *)
(* program is a record of the strings its format string joins.  Design     *)
(* matrices are kept by their shape and by the term (and level) they       *)
(* belong to.  PyMC3 and PyStan are outside the repository: a node of the  *)
(* graph is the record of the call that made it, and a fit is the record   *)
(* of the draws PyStan hands back.                                         *)
(***************************************************************************)
EXTENDS Integers, Sequences, FiniteSets, TLC

VARIABLES
    callerSpecs,             \* the Model Specifications the caller holds
    backend,                 \* the class of the back end instance
    parameters,              \* StanBackEnd.parameters
    transformed_parameters,  \* StanBackEnd.transformed_parameters
    data,                    \* StanBackEnd.data
    transformed_data,        \* StanBackEnd.transformed_data
    X,                       \* StanBackEnd.X
    model,                   \* StanBackEnd.model (a list), PyMC3BackEnd.model (a graph)
    mu,                      \* self.mu of either back end
    suppress_vars,           \* StanBackEnd._suppress_vars
    model_code,              \* StanBackEnd.model_code
    spec,                    \* self.spec: a reference into callerSpecs
    stan_model,              \* StanBackEnd.stan_model
    fit,                     \* StanBackEnd.fit
    trace,                   \* self.trace
    advi_params,             \* PyMC3BackEnd.advi_params
    call,                    \* the last call made on the instance, with its arguments
    raised,                  \* the exception the last call raised, or None
    returned                 \* what the last call returned

vars == << callerSpecs, backend, parameters, transformed_parameters, data,
           transformed_data, X, model, mu, suppress_vars, model_code, spec,
           stan_model, fit, trace, advi_params, call, raised, returned >>

\* Python's None, and the value of an attribute that was never assigned.
None == [none |-> TRUE]
Unset == [unset |-> TRUE]

\* a reference to the caller's spec number id
Ref(id) == [ref |-> id]

-----------------------------------------------------------------------------
(* Sequences and Python dicts.  A dict is the sequence of its items in      *)
(* insertion order; assigning to a key that is there replaces its value in  *)
(* place.                                                                   *)

Range(s) == { s[i] : i \in 1..Len(s) }

SetToSeqs(S) == { s \in [1..Cardinality(S) -> S] : Range(s) = S }

Keys(d) == { d[i].k : i \in 1..Len(d) }

Lookup(d, key) == (CHOOSE i \in 1..Len(d) : d[i].k = key)

Get(d, key) == d[Lookup(d, key)].v

DictSet(d, key, val) ==
    IF key \in Keys(d)
    THEN [d EXCEPT ![Lookup(d, key)] = [k |-> key, v |-> val]]
    ELSE Append(d, [k |-> key, v |-> val])

\* the names of a list of declarations
NamesOf(decls) == [i \in 1..Len(decls) |-> decls[i].name]

Count(s, e) == Cardinality({ i \in 1..Len(s) : s[i] = e })

RECURSIVE Join(_, _)
Join(strs, sep) ==
    IF Len(strs) = 0 THEN ""
    ELSE IF Len(strs) = 1 THEN strs[1]
    ELSE strs[1] \o sep \o Join(Tail(strs), sep)

-----------------------------------------------------------------------------
(* Priors.  An argument of a Prior is a number or a nested Prior.           *)

Num(n) == [tag |-> "num", val |-> n]

Prior(name, args) == [tag |-> "prior", name |-> name, args |-> args]

Arg(key, val) == [k |-> key, v |-> val]

IsPrior(v) == v.tag = "prior"

\* str(p) of an argument that _map_dist renders
Str(p) == IF p.tag = "num" THEN ToString(p.val) ELSE p.val

Lit(s) == [tag |-> "str", val |-> s]

-----------------------------------------------------------------------------
(* StanBackEnd.dists, the mapping table.                                    *)

dists ==
    <<  Arg("Normal",     [name |-> "normal", args |-> <<"#mu", "#sd">>, bounds |-> ""]),
        Arg("Cauchy",     [name |-> "cauchy", args |-> <<"#alpha", "#beta">>, bounds |-> ""]),
        Arg("HalfNormal", [name |-> "normal", args |-> <<"0", "#sd">>, bounds |-> "<lower=0>"]),
        Arg("HalfCauchy", [name |-> "cauchy", args |-> <<"0", "#beta">>, bounds |-> "<lower=0>"]) >>

StartsWithHash(a) == Len(a) >= 1 /\ SubSeq(a, 1, 1) = "#"

DropFirst(a) == SubSeq(a, 2, Len(a))

\* lookup_args = [a[1:] for a in dist_args if a.startswith('#')]
LookupArgs(dist_args) ==
    { DropFirst(dist_args[i]) : i \in { j \in 1..Len(dist_args) : StartsWithHash(dist_args[j]) } }

\* _map_dist(dist, **kwargs): the error it raises, or the pair it returns
MapDist(dist, kwargs) ==
    IF dist \notin Keys(dists)
    THEN [err |-> [type |-> "ValueError", what |-> "no distribution", dist |-> dist]]
    ELSE LET stan_dist == Get(dists, dist)
             missing == LookupArgs(stan_dist.args) \ Keys(kwargs)
             dp == [ i \in 1..Len(stan_dist.args) |->
                       IF StartsWithHash(stan_dist.args[i])
                       THEN Str(Get(kwargs, DropFirst(stan_dist.args[i])))
                       ELSE stan_dist.args[i] ]
         IN  IF missing # {}
             THEN [err |-> [type |-> "ValueError", what |-> "missing", dist |-> dist,
                            missing |-> missing]]
             ELSE [err |-> None,
                   dist_term |-> stan_dist.name \o "(" \o Join(dp, ", ") \o ");",
                   dist_bounds |-> stan_dist.bounds]


-----------------------------------------------------------------------------
(* The Model Specification (bambi.models.Model), as far as the back ends    *)
(* read it.  A design matrix is kept by its owner and its shape.            *)

Matrix(owner, rows, cols) == [kind |-> "matrix", of |-> owner, shape |-> <<rows, cols>>]

IsDict(d) == d.kind = "dict"

\* numpy's squeeze(): the axes of length one are dropped
Squeeze(d) == [of |-> d.of,
               shape |-> SelectSeq(d.shape, LAMBDA n : n # 1)]

\* len(spec.y.data)
NCases(s) == s.y.data.shape[1]

-----------------------------------------------------------------------------
(* StanBackEnd.build: the accumulators while a build runs.  err is the      *)
(* exception on its way out of build; nothing more is done once it is set.  *)

EmptyAcc == [parameters |-> <<>>, transformed_parameters |-> <<>>, data |-> <<>>,
             transformed_data |-> <<>>, X |-> <<>>, model |-> <<>>, mu |-> <<>>,
             suppress_vars |-> <<>>, err |-> None]

CurrentAcc == [parameters |-> parameters, transformed_parameters |-> transformed_parameters,
               data |-> data, transformed_data |-> transformed_data, X |-> X,
               model |-> model, mu |-> mu, suppress_vars |-> suppress_vars, err |-> None]

\* 'vector[%d]' and 'matrix[%d, %d]'
VectorOf(n) == "vector[" \o ToString(n) \o "]"

MatrixOf(n, m) == "matrix[" \o ToString(n) \o ", " \o ToString(m) \o "]"

\* _add_data(name, data), with the n_cols and n_cases of the enclosing build
AddData(a, name, d, n_cols, n_cases) ==
    LET stan_data == IF n_cols = 1 THEN VectorOf(n_cases) ELSE MatrixOf(n_cases, n_cols)
    IN  [a EXCEPT !.data = Append(@, [type |-> stan_data, bounds |-> "", name |-> name \o "_data"]),
                  !.X    = DictSet(@, name \o "_data", Squeeze(d)),
                  !.mu   = Append(@, name \o "_data * " \o name)]

\* a declaration that would be a scalar whatever the number of columns
StanParReal(n_cols) == "real"

\* 'real' or 'vector[%d]'
StanPar(n_cols) == IF n_cols = 1 THEN "real" ELSE VectorOf(n_cols)

\* the two appends that end _add_parameters
AppendParameter(a, name, n_cols, m) ==
    [a EXCEPT !.parameters = Append(@, [type |-> StanPar(n_cols), bounds |-> m.dist_bounds,
                                        name |-> name]),
              !.model = Append(@, name \o " ~ " \o m.dist_term \o ";")]

\* an _add_parameters that would name a nested Prior without adding it
AddParametersFlat(a, name, dist_name, n_cols, dist_args) ==
    LET kwargs == [i \in 1..Len(dist_args) |->
                      IF IsPrior(dist_args[i].v)
                      THEN Arg(dist_args[i].k, Lit(name \o "_" \o dist_args[i].k))
                      ELSE dist_args[i]]
        m == MapDist(dist_name, kwargs)
    IN  IF m.err # None THEN [a EXCEPT !.err = m.err]
        ELSE AppendParameter(a, name, n_cols, m)

RECURSIVE AddParameters(_, _, _, _, _)
RECURSIVE ExpandArgs(_, _, _, _, _)

\* kwargs = {k: _expand_args(k, v, name) for (k, v) in dist_args.items()}, from
\* item i on; a nested Prior is added under the name '%s_%s' % (name, k), and
\* its name is the value of the argument
ExpandArgs(a, dist_args, name, i, kwargs) ==
    IF i > Len(dist_args) THEN [acc |-> a, kwargs |-> kwargs]
    ELSE LET k == dist_args[i].k
             v == dist_args[i].v
         IN  IF IsPrior(v)
             THEN LET nested == name \o "_" \o k
                      b == AddParameters(a, nested, v.name, 1, v.args)
                  IN  IF b.err # None THEN [acc |-> b, kwargs |-> kwargs]
                      ELSE ExpandArgs(b, dist_args, name, i + 1,
                                      Append(kwargs, Arg(k, Lit(nested))))
             ELSE ExpandArgs(a, dist_args, name, i + 1, Append(kwargs, Arg(k, v)))

\* _add_parameters(name, dist_name, n_cols, **dist_args)
AddParameters(a, name, dist_name, n_cols, dist_args) ==
    LET e == ExpandArgs(a, dist_args, name, 1, <<>>)
    IN  IF e.acc.err # None THEN e.acc
        ELSE LET m == MapDist(dist_name, e.kwargs)
             IN  IF m.err # None THEN [e.acc EXCEPT !.err = m.err]
                 ELSE AppendParameter(e.acc, name, n_cols, m)

\* 'u_%s_%s' % (label, level)
LevelName(label, level) == "u_" \o label \o "_" \o level

\* a name that would carry the prefix of a fixed effect whatever the term
TermNameFixed(t) == "b_" \o t.name

\* prefix + label
TermName(t) == (IF t.random THEN "u_" ELSE "b_") \o t.name

\* a loop body that would add the parameters before the data
AddTermPartParametersFirst(a, name, d, t, n_cases) ==
    LET n_cols == d.shape[2]
        b == AddParameters(a, name, t.prior.name, n_cols, t.prior.args)
    IN  IF b.err # None THEN b ELSE AddData(b, name, d, n_cols, n_cases)

\* one pass of either loop body: _add_data, then _add_parameters
AddTermPart(a, name, d, t, n_cases) ==
    LET n_cols == d.shape[2]
    IN  AddParameters(AddData(a, name, d, n_cols, n_cases), name, t.prior.name,
                      n_cols, t.prior.args)

\* for level, level_data in data.items(): ..., from level i on
RECURSIVE AddLevels(_, _, _, _)
AddLevels(a, t, i, n_cases) ==
    IF a.err # None \/ i > Len(t.data.levels) THEN a
    ELSE AddLevels(AddTermPart(a, LevelName(t.name, t.data.levels[i].k),
                               t.data.levels[i].v, t, n_cases),
                   t, i + 1, n_cases)

\* the body of: for t in spec.terms.values()
AddTerm(a, t, n_cases) ==
    IF IsDict(t.data) THEN AddLevels(a, t, 1, n_cases)
    ELSE AddTermPart(a, TermName(t), t.data, t, n_cases)

\* for t in spec.terms.values(): ..., from term i on
RECURSIVE AddTerms(_, _, _, _)
AddTerms(a, terms, i, n_cases) ==
    IF a.err # None \/ i > Len(terms) THEN a
    ELSE AddTerms(AddTerm(a, terms[i], n_cases), terms, i + 1, n_cases)

\* a yhat that would be as long as the mean list
AddYhatLengthOfMu(a, s) ==
    LET n_cases == NCases(s)
    IN  [a EXCEPT
           !.transformed_parameters =
                @ \o << [kind |-> "decl", type |-> VectorOf(Len(a.mu)), name |-> "yhat"],
                        [kind |-> "def", name |-> "yhat", sum |-> a.mu] >>,
           !.suppress_vars = Append(@, "yhat"),
           !.data = Append(@, [type |-> VectorOf(n_cases), bounds |-> "", name |-> "y"]),
           !.parameters = Append(@, [type |-> "real", bounds |-> "<lower=0>", name |-> "sigma"]),
           !.model = Append(@, "y ~ normal(yhat, sigma);"),
           !.X = DictSet(@, "y", Squeeze(s.y.data))]

\* the yhat and y statements that follow the loop
AddYhat(a, s) ==
    LET n_cases == NCases(s)
    IN  [a EXCEPT
           !.transformed_parameters =
                @ \o << [kind |-> "decl", type |-> VectorOf(n_cases), name |-> "yhat"],
                        [kind |-> "def", name |-> "yhat", sum |-> a.mu] >>,
           !.suppress_vars = Append(@, "yhat"),
           !.data = Append(@, [type |-> VectorOf(n_cases), bounds |-> "", name |-> "y"]),
           !.parameters = Append(@, [type |-> "real", bounds |-> "<lower=0>", name |-> "sigma"]),
           !.model = Append(@, "y ~ normal(yhat, sigma);"),
           !.X = DictSet(@, "y", Squeeze(s.y.data))]

\* blocks and format_block: the program text, block by block
ModelCode(a) ==
    [blocks |-> << [block |-> "data", els |-> a.data],
                   [block |-> "transformed data", els |-> a.transformed_data],
                   [block |-> "parameters", els |-> a.parameters],
                   [block |-> "transformed parameters", els |-> a.transformed_parameters],
                   [block |-> "model", els |-> a.model] >>]

\* What stanc, which ps.StanModel runs on the text, refuses: a variable that
\* is declared twice, a product of yhat one of whose factors is not declared,
\* a sampling statement for a variable that is not declared.
StanRejects(code) ==
    LET dataNames == NamesOf(code.blocks[1].els) \o NamesOf(code.blocks[2].els)
        parNames == NamesOf(code.blocks[3].els)
        tpDecls == SelectSeq(code.blocks[4].els, LAMBDA e : e.kind = "decl")
        tpDefs == SelectSeq(code.blocks[4].els, LAMBDA e : e.kind = "def")
        declared == dataNames \o parNames \o NamesOf(tpDecls)
    IN  \/ \E i, j \in 1..Len(declared) : i # j /\ declared[i] = declared[j]
        \/ \E i \in 1..Len(tpDefs) : \E p \in Range(tpDefs[i].sum) :
              ~ \E d \in Range(dataNames), q \in Range(parNames) : p = d \o " * " \o q
        \/ \E i \in 1..Len(code.blocks[5].els) :
              ~ \E q \in Range(declared) :
                   LET st == code.blocks[5].els[i]
                   IN  Len(st) > Len(q) + 3 /\ SubSeq(st, 1, Len(q) + 3) = q \o " ~ "

\* ps.StanModel(model_code=...): the sampler compiled from the text, or the
\* ValueError of a text that does not parse
StanModel(code) ==
    IF StanRejects(code)
    THEN [err |-> [type |-> "ValueError", what |-> "failed to parse"]]
    ELSE [err |-> None, model_code |-> code]

\* the accumulators build leaves, and the exception it raises (err)
BuildAcc(s, reset) ==
    LET a == AddTerms(IF reset THEN EmptyAcc ELSE CurrentAcc, s.terms, 1, NCases(s))
    IN  IF a.err # None THEN a ELSE AddYhat(a, s)


-----------------------------------------------------------------------------
(* PyStan, as far as run reads it.  sampling() keeps iter draws a chain, of *)
(* which the first warmup (iter // 2 unless the caller passes warmup) are   *)
(* warm-up; extract(permuted=True) hands back, for every variable of the    *)
(* program and for lp__, the draws after warm-up of all chains in one       *)
(* array.  A draw is kept by its place in that array.                       *)

DeclaredNames(code) ==
    LET decls(els) == { els[i].name : i \in { j \in 1..Len(els) : "kind" \notin DOMAIN els[j]
                                                                  \/ els[j].kind = "decl" } }
    IN  decls(code.blocks[3].els) \cup decls(code.blocks[4].els) \cup {"lp__"}

\* the declaration that an array of the payload answers
TypeOfShape(sh) == IF Len(sh) = 1 THEN VectorOf(sh[1]) ELSE MatrixOf(sh[1], sh[2])

\* sampling() refuses a payload that lacks a variable of the data block, or
\* holds it in another shape than the one declared
SamplingRefuses(sm, payload) ==
    \E e \in Range(sm.model_code.blocks[1].els) :
        \/ e.name \notin Keys(payload)
        \/ TypeOfShape(Get(payload, e.name).shape) # e.type

\* self.stan_model.sampling(data=self.X, iter=samples, chains=chains, **kwargs)
Sampling(sm, payload, samples, chains, warmup) ==
    IF SamplingRefuses(sm, payload)
    THEN [err |-> [type |-> "RuntimeError", what |-> "data"]]
    ELSE [err |-> None,
          sim |-> [chains |-> chains, iter |-> samples, warmup |-> warmup],
          pars |-> DeclaredNames(sm.model_code)]

\* self.fit.extract(permuted=True, inc_warmup=True)
Extract(f) ==
    [k \in f.pars |-> [j \in 1..(f.sim.chains * (f.sim.iter - f.sim.warmup)) |-> j - 1]]

\* par[start:(start+n_samples)]: Python's slice, by 0-based positions
Slice(par, start, stop) ==
    LET lo == IF start > Len(par) THEN Len(par) ELSE start
        hi == IF stop > Len(par) THEN Len(par) ELSE stop
    IN  IF hi <= lo THEN <<>> ELSE SubSeq(par, lo + 1, hi)

\* a conversion that would hand every chain the first window of the draws
ConvertToMultitraceFirstWindow(f) ==
    LET result == Extract(f)
        n_chains == f.sim.chains
        n_samples == f.sim.iter - f.sim.warmup
    IN  [straces |->
            [i \in 1..n_chains |->
                [chain |-> i - 1,
                 draws |-> n_samples,
                 varnames |-> DOMAIN result,
                 samples |-> [k \in DOMAIN result |-> Slice(result[k], 0, n_samples)]]]]

\* StanBackEnd._convert_to_multitrace: the MultiTrace, a list of NDArrays
ConvertToMultitrace(f) ==
    LET result == Extract(f)
        n_chains == f.sim.chains
        n_samples == f.sim.iter - f.sim.warmup
    IN  [straces |->
            [i \in 1..n_chains |->
                [chain |-> i - 1,
                 draws |-> n_samples,
                 varnames |-> DOMAIN result,
                 samples |-> [k \in DOMAIN result |->
                                 Slice(result[k], (i - 1) * n_samples,
                                       (i - 1) * n_samples + n_samples)]]]]

\* MCMCResults(self.spec, self.trace, self._suppress_vars)
MCMCResults(sp, tr, transformed) ==
    [model |-> sp, trace |-> tr, transformed_vars |-> transformed]

-----------------------------------------------------------------------------
(* The calls on a StanBackEnd.                                              *)

IsStan == backend = "StanBackEnd"

\* StanBackEnd.reset
StanReset ==
    /\ IsStan
    /\ parameters' = <<>>
    /\ transformed_parameters' = <<>>
    /\ data' = <<>>
    /\ transformed_data' = <<>>
    /\ X' = <<>>
    /\ model' = <<>>
    /\ mu' = <<>>
    /\ suppress_vars' = <<>>
    /\ call' = [op |-> "reset"]
    /\ raised' = None
    /\ returned' = None
    /\ UNCHANGED << callerSpecs, backend, model_code, spec, stan_model, fit, trace,
                    advi_params >>

\* StanBackEnd.build(spec, reset) on the caller's spec number id
StanBuild(id, reset) ==
    \E a \in {BuildAcc(callerSpecs[id], reset)} :
        /\ IsStan
        /\ parameters' = a.parameters
        /\ transformed_parameters' = a.transformed_parameters
        /\ data' = a.data
        /\ transformed_data' = a.transformed_data
        /\ X' = a.X
        /\ model' = a.model
        /\ mu' = a.mu
        /\ suppress_vars' = a.suppress_vars
        /\ IF a.err = None
           THEN \E sm \in {StanModel(ModelCode(a))} :
                /\ model_code' = ModelCode(a)
                /\ spec' = Ref(id)
                /\ stan_model' = IF sm.err = None THEN [model_code |-> sm.model_code]
                                  ELSE stan_model
                /\ raised' = sm.err
           ELSE /\ UNCHANGED << model_code, spec, stan_model >>
                /\ raised' = a.err
        /\ call' = [op |-> "build", spec |-> id, reset |-> reset]
        /\ returned' = None
        /\ UNCHANGED << callerSpecs, backend, fit, trace, advi_params >>

\* StanBackEnd.run(samples, chains, **kwargs); warmup is the warm-up PyStan
\* uses, the caller's or its default
StanRun(samples, chains, warmup) ==
    /\ IsStan
    /\ call' = [op |-> "run", samples |-> samples, chains |-> chains, warmup |-> warmup]
    /\ IF stan_model = Unset
       THEN /\ raised' = [type |-> "AttributeError", what |-> "stan_model"]
            /\ returned' = None
            /\ UNCHANGED << fit, trace >>
       ELSE \E f \in {Sampling(stan_model, X, samples, chains, warmup)} :
            IF f.err # None
            THEN /\ raised' = f.err
                 /\ returned' = None
                 /\ UNCHANGED << fit, trace >>
            ELSE \E t \in {ConvertToMultitrace(f)} :
                 /\ fit' = [sim |-> f.sim, pars |-> f.pars]
                 /\ trace' = t
                 /\ raised' = None
                 /\ returned' = MCMCResults(spec, t, suppress_vars)
    /\ UNCHANGED << callerSpecs, backend, parameters, transformed_parameters, data,
                    transformed_data, X, model, mu, suppress_vars, model_code, spec,
                    stan_model, advi_params >>


-----------------------------------------------------------------------------
(* The Model Specifications the caller may hold.                            *)

MaxLevels == 2      \* levels of a per-level random effect
MaxCarry == 2       \* a build with reset=False is explored while self.data
                    \* (the graph's nodes) holds at most this many entries
MaxChains == 2      \* run(chains=...)

TermNames == {"a", "a_b"}
LevelNames == <<"b", "a", "c">>
ColumnCounts == {1, 3}
CaseCounts == {2, 3}
SampleCounts == {1, 2}   \* run(samples=...)

HalfCauchy1 == Prior("HalfCauchy", <<Arg("beta", Num(1))>>)
Normal01 == Prior("Normal", <<Arg("mu", Num(0)), Arg("sd", Num(1))>>)

\* what the sd of a prior may be: a number or a hyperprior, sound or not
Hypers ==
    { Num(1),
      HalfCauchy1,
      Prior("HalfCauchy", <<>>),
      Prior("Foo", <<Arg("beta", Num(1))>>),
      Prior("HalfNormal", <<Arg("sd", HalfCauchy1)>>) }

Priors ==
    { Prior(n, <<Arg("mu", Num(0)), Arg("sd", h)>>) : n \in {"Normal", "Foo"}, h \in Hypers }
    \cup { Prior("Normal", <<Arg("sd", h), Arg("mu", Normal01)>>) :
              h \in {HalfCauchy1, Prior("Foo", <<Arg("beta", Num(1))>>)} }
    \cup { Prior("Normal", <<Arg("mu", Num(0))>>),
           HalfCauchy1,
           Prior("HalfNormal", <<Arg("sd", Num(1))>>),
           Prior("Cauchy", <<Arg("alpha", Num(0)), Arg("beta", Num(1))>>) }

\* the priors of the second term of a two-term spec
FewPriors == { Normal01, Prior("Foo", <<Arg("mu", Num(0))>>),
               Prior("Normal", <<Arg("mu", Num(0)), Arg("sd", HalfCauchy1)>>) }

PlainTerm(name, random, cols, prior, n) ==
    [name |-> name, random |-> random, data |-> Matrix(<<name>>, n, cols), prior |-> prior]

LevelsTerm(name, k, cols, prior, n) ==
    [name |-> name, random |-> TRUE,
     data |-> [kind |-> "dict",
               levels |-> [i \in 1..k |-> Arg(LevelNames[i],
                                              Matrix(<<name, LevelNames[i]>>, n, cols))]],
     prior |-> prior]

TermsOf(names, priors, n) ==
    { PlainTerm(nm, r, c, p, n) : nm \in names, r \in BOOLEAN, c \in ColumnCounts, p \in priors }
    \cup { LevelsTerm(nm, k, c, p, n) : nm \in names, k \in 1..MaxLevels, c \in ColumnCounts,
                                       p \in priors }

\* the family: a Normal likelihood whose sd has a hyperprior, identity link
Family == [prior |-> Prior("Normal", <<Arg("sd", HalfCauchy1)>>),
           link |-> "identity", parent |-> "mu"]

Model(terms, n) == [terms |-> terms, y |-> [name |-> "y", data |-> Matrix(<<"y">>, n, 1)],
                    family |-> Family]

\* one term of any shape and prior, or such a term "a" and a plain second
\* term "a_b"
Specs ==
    UNION { { Model(<<t>>, n) : t \in TermsOf(TermNames, Priors, n) } : n \in CaseCounts }
    \cup { Model(<<t, u>>, 2) : t \in TermsOf({"a"}, Priors, 2),
                                u \in { PlainTerm("a_b", r, 1, p, 2) :
                                           r \in BOOLEAN, p \in FewPriors } }

\* the specs of a caller that holds two: the first is one fixed effect, sound
\* or not
SmallSpecs ==
    UNION { { Model(<<PlainTerm(nm, FALSE, 1, p, n)>>, n) :
                 nm \in TermNames, p \in {Normal01, Prior("Foo", <<Arg("mu", Num(0))>>)} }
            : n \in CaseCounts }

\* the second is a fixed effect "a", sound or not, or a sound "a" followed by
\* an unsound "a_b"
OtherSpecs ==
    UNION { { Model(<<PlainTerm("a", FALSE, 1, p, n)>>, n) :
                 p \in {Normal01, Prior("Foo", <<Arg("mu", Num(0))>>)} }
            \cup { Model(<<PlainTerm("a", FALSE, 1, Normal01, n),
                           PlainTerm("a_b", FALSE, 1, Prior("Foo", <<Arg("mu", Num(0))>>), n)>>, n) }
            : n \in CaseCounts }

\* two fixed effects, the name of one inside the name of the other
NameSpecs ==
    { Model(<<PlainTerm(nm[1], FALSE, 1, p, 2), PlainTerm(nm[2], FALSE, 1, q, 2)>>, 2) :
         nm \in { <<"a", "b_a">>, <<"b_a", "a">> }, p \in {Normal01, HalfCauchy1},
         q \in {Normal01, HalfCauchy1} }

RunArgs ==
    { << samples, chains, warmup >> \in SampleCounts \X (1..MaxChains) \X {0, 1} :
          warmup \in {0, samples \div 2} }

-----------------------------------------------------------------------------
(* A StanBackEnd from its construction on.                                  *)

StanFresh ==
    /\ backend = "StanBackEnd"
    /\ parameters = <<>>
    /\ transformed_parameters = <<>>
    /\ data = <<>>
    /\ transformed_data = <<>>
    /\ X = <<>>
    /\ model = <<>>
    /\ mu = <<>>
    /\ suppress_vars = <<>>
    /\ model_code = Unset
    /\ spec = Unset
    /\ stan_model = Unset
    /\ fit = Unset
    /\ trace = Unset
    /\ advi_params = Unset
    /\ call = [op |-> "__init__"]
    /\ raised = None
    /\ returned = None

-----------------------------------------------------------------------------
(* PyMC3, as far as the graph back end reads it.  A pm.Model is the list of *)
(* its random variables; a variable is made by calling a distribution class *)
(* with a label inside "with self.model".  A distribution with a positive   *)
(* support is reparameterized: the graph gets the free variable             *)
(* <label>_log_ and the TransformedRV <label>.  A name that is in the graph *)
(* already is refused.                                                      *)

PmDistributions == {"Normal", "Cauchy", "HalfNormal", "HalfCauchy"}

PmPositive == {"HalfNormal", "HalfCauchy"}

\* pm.Model()
PmModel == [nodes |-> <<>>]

NodeNames(g) == { g.nodes[i].name : i \in 1..Len(g.nodes) }

\* Model.add_random_variable
AddRandomVariable(a, node) ==
    IF a.err # None THEN a
    ELSE IF node.name \in NodeNames(a.model)
    THEN [a EXCEPT !.err = [type |-> "ValueError", what |-> "already exists", name |-> node.name]]
    ELSE [a EXCEPT !.model.nodes = Append(@, node)]

\* dist(label, **kwargs) inside "with self.model"
NewVariable(a, label, dist, kwargs) ==
    IF "observed" \in Keys(kwargs)
    THEN AddRandomVariable(a, [name |-> label, rv |-> "ObservedRV", dist |-> dist, kwargs |-> kwargs])
    ELSE IF dist \in PmPositive
    THEN AddRandomVariable(
            AddRandomVariable(a, [name |-> label \o "_log_", rv |-> "FreeRV", dist |-> dist,
                                  kwargs |-> kwargs]),
            [name |-> label, rv |-> "TransformedRV", dist |-> dist, kwargs |-> kwargs])
    ELSE AddRandomVariable(a, [name |-> label, rv |-> "FreeRV", dist |-> dist, kwargs |-> kwargs])

\* a random variable as the value of an argument, or as a factor of mu
Rv(name) == [tag |-> "rv", val |-> name]

\* self.model.unobserved_RVs
UnobservedRVs(g) == SelectSeq(g.nodes, LAMBDA n : n.rv # "ObservedRV")

\* pm.sample(...): the MultiTrace, of which run reads the variable names
PmSample(g, samples) ==
    [varnames |-> [i \in 1..Len(UnobservedRVs(g)) |-> UnobservedRVs(g)[i].name],
     draws |-> samples]

-----------------------------------------------------------------------------
(* PyMC3BackEnd._build_dist and build.  The accumulators of a build are the *)
(* graph, mu (the products added so far) and the exception on its way out.  *)

RECURSIVE BuildDist(_, _, _, _)
RECURSIVE ExpandKwargs(_, _, _, _, _)

\* kwargs = {k: _expand_args(k, v, label) for (k, v) in kwargs.items()}, from
\* item i on
ExpandKwargs(a, kwargs, label, i, done) ==
    IF i > Len(kwargs) THEN [acc |-> a, kwargs |-> done]
    ELSE LET k == kwargs[i].k
             v == kwargs[i].v
         IN  IF IsPrior(v)
             THEN LET nested == label \o "_" \o k
                      b == BuildDist(a, nested, v.name, v.args)
                  IN  IF b.err # None THEN [acc |-> b, kwargs |-> done]
                      ELSE ExpandKwargs(b, kwargs, label, i + 1, Append(done, Arg(k, Rv(nested))))
             ELSE ExpandKwargs(a, kwargs, label, i + 1, Append(done, Arg(k, v)))

\* _build_dist(label, dist, **kwargs)
BuildDist(a, label, dist, kwargs) ==
    IF dist \notin PmDistributions
    THEN [a EXCEPT !.err = [type |-> "ValueError", what |-> "not found in PyMC3", dist |-> dist]]
    ELSE LET e == ExpandKwargs(a, kwargs, label, 1, <<>>)
         IN  IF e.acc.err # None THEN e.acc
             ELSE NewVariable(e.acc, label, dist, e.kwargs)

\* self.mu += pm.math.dot(data, coef)[:, None]
AddDot(a, d, name) ==
    IF a.err # None THEN a
    ELSE [a EXCEPT !.mu.sum = Append(@, [data |-> d.of, coef |-> name])]

\* one pass of either loop body
GraphTermPart(a, name, d, t) ==
    AddDot(BuildDist(a, name, t.prior.name, <<Arg("shape", Num(d.shape[2]))>> \o t.prior.args),
           d, name)

RECURSIVE GraphLevels(_, _, _)
GraphLevels(a, t, i) ==
    IF a.err # None \/ i > Len(t.data.levels) THEN a
    ELSE GraphLevels(GraphTermPart(a, LevelName(t.name, t.data.levels[i].k),
                                   t.data.levels[i].v, t),
                     t, i + 1)

GraphTerm(a, t) ==
    IF IsDict(t.data) THEN GraphLevels(a, t, 1)
    ELSE GraphTermPart(a, TermName(t), t.data, t)

RECURSIVE GraphTerms(_, _, _)
GraphTerms(a, terms, i) ==
    IF a.err # None \/ i > Len(terms) THEN a
    ELSE GraphTerms(GraphTerm(a, terms[i]), terms, i + 1)

\* PyMC3BackEnd.links; link_f(self.mu)
links == {"identity", "logit", "inverse", "log"}

Link(f, m) == [tag |-> "link", f |-> f, of |-> m]

\* y_prior.args[spec.family.parent] = link_f(self.mu); y_prior.args['observed'] = y
LikelihoodArgs(s, m) ==
    DictSet(DictSet(s.family.prior.args, s.family.parent, Link(s.family.link, m)),
            "observed", [tag |-> "data", val |-> s.y.data.of])

\* the accumulators build leaves: the graph, mu, the exception, and the args
\* of the family's prior as build leaves them
GraphBuildAcc(s, reset) ==
    LET a == GraphTerms([model |-> IF reset THEN PmModel ELSE model, mu |-> [sum |-> <<>>],
                         err |-> None, args |-> s.family.prior.args, done |-> FALSE],
                        s.terms, 1)
    IN  IF a.err # None THEN a
        ELSE LET args == LikelihoodArgs(s, a.mu)
                 b == BuildDist([a EXCEPT !.args = args], s.y.name, s.family.prior.name, args)
             IN  [b EXCEPT !.done = (b.err = None)]

\* PyMC3BackEnd._get_transformed_vars
IsSubstring(t, x) ==
    \E i \in 1..(Len(x) - Len(t) + 1) : SubSeq(x, i, i + Len(t) - 1) = t

GetTransformedVars(g, tr) ==
    LET rvs == UnobservedRVs(g)
        trans == { rvs[i].name : i \in { j \in 1..Len(rvs) : rvs[j].rv = "TransformedRV" } }
        all == { rvs[i].name : i \in 1..Len(rvs) }
        untrans == { x \in all \ trans : ~ \E t \in trans : IsSubstring(t, x) }
    IN  SelectSeq(tr.varnames, LAMBDA x : x \notin (trans \cup untrans))

-----------------------------------------------------------------------------
(* The calls on a PyMC3BackEnd.                                             *)

IsPyMC3 == backend = "PyMC3BackEnd"

StanFields == << parameters, transformed_parameters, data, transformed_data, X,
                 suppress_vars, model_code, stan_model, fit >>

\* PyMC3BackEnd.reset
GraphReset ==
    /\ IsPyMC3
    /\ model' = PmModel
    /\ mu' = None
    /\ call' = [op |-> "reset"]
    /\ raised' = None
    /\ returned' = None
    /\ UNCHANGED << callerSpecs, backend, StanFields, spec, trace, advi_params >>

\* PyMC3BackEnd.build(spec, reset) on the caller's spec number id
GraphBuild(id, reset) ==
    \E a \in {GraphBuildAcc(callerSpecs[id], reset)} :
        /\ IsPyMC3
        /\ model' = a.model
        /\ mu' = a.mu
        /\ callerSpecs' = [callerSpecs EXCEPT ![id].family.prior.args = a.args]
        /\ spec' = IF a.done THEN Ref(id) ELSE spec
        /\ call' = [op |-> "build", spec |-> id, reset |-> reset]
        /\ raised' = a.err
        /\ returned' = None
        /\ UNCHANGED << backend, StanFields, trace, advi_params >>

\* PyMC3BackEnd.run(method=..., samples=...)
GraphRun(method, samples) ==
    /\ IsPyMC3
    /\ call' = [op |-> "run", method |-> method, samples |-> samples]
    /\ IF method = "mcmc"
       THEN \E t \in {PmSample(model, samples)} :
                /\ trace' = t
                /\ advi_params' = advi_params
                /\ IF spec = Unset
                   THEN /\ raised' = [type |-> "AttributeError", what |-> "spec"]
                        /\ returned' = None
                   ELSE /\ raised' = None
                        /\ returned' = MCMCResults(spec, t, GetTransformedVars(model, t))
       ELSE /\ trace' = trace
            /\ advi_params' = [advi |-> "params"]
            /\ IF spec = Unset \/ trace = Unset
               THEN /\ raised' = [type |-> "AttributeError",
                                  what |-> IF spec = Unset THEN "spec" ELSE "trace"]
                    /\ returned' = None
               ELSE /\ raised' = None
                    /\ returned' = [model |-> spec, params |-> [advi |-> "params"],
                                    transformed_vars |-> GetTransformedVars(model, trace)]
    /\ UNCHANGED << callerSpecs, backend, StanFields, model, mu, spec >>

-----------------------------------------------------------------------------
(* The specifications.                                                      *)

GraphFresh ==
    /\ backend = "PyMC3BackEnd"
    /\ model = PmModel
    /\ mu = None
    /\ spec = Unset
    /\ trace = Unset
    /\ advi_params = Unset
    /\ parameters = Unset
    /\ transformed_parameters = Unset
    /\ data = Unset
    /\ transformed_data = Unset
    /\ X = Unset
    /\ suppress_vars = Unset
    /\ model_code = Unset
    /\ stan_model = Unset
    /\ fit = Unset
    /\ call = [op |-> "__init__"]
    /\ raised = None
    /\ returned = None

BuildStan ==
    /\ IsStan
    /\ \E id \in DOMAIN callerSpecs, reset \in BOOLEAN :
          /\ reset \/ Len(data) <= MaxCarry
          /\ StanBuild(id, reset)

RunStan == \E r \in RunArgs : StanRun(r[1], r[2], r[3])

BuildGraph ==
    /\ IsPyMC3
    /\ \E id \in DOMAIN callerSpecs, reset \in BOOLEAN :
          /\ reset \/ Len(model.nodes) <= MaxCarry
          /\ GraphBuild(id, reset)

RunGraph == \E method \in {"mcmc", "advi"}, samples \in SampleCounts : GraphRun(method, samples)

\* the life of a StanBackEnd whose caller holds two small specs
InitStan == (\E s \in SmallSpecs, t \in OtherSpecs : callerSpecs = << s, t >>) /\ StanFresh

NextStan == StanReset \/ BuildStan \/ RunStan

SpecStan == InitStan /\ [][NextStan]_vars

\* the life of a PyMC3BackEnd whose caller holds one spec of any shape and
\* prior, or two small ones
InitGraph ==
    /\ \/ \E s \in Specs \cup NameSpecs : callerSpecs = << s >>
       \/ \E s \in SmallSpecs, t \in OtherSpecs : callerSpecs = << s, t >>
    /\ GraphFresh

NextGraph == GraphReset \/ BuildGraph \/ RunGraph

SpecGraph == InitGraph /\ [][NextGraph]_vars

\* the builds, by a back end of either class, of one spec of any shape and prior
InitBuild ==
    /\ \E s \in Specs : callerSpecs = << s >>
    /\ StanFresh \/ GraphFresh

NextBuild == StanReset \/ BuildStan \/ GraphReset \/ BuildGraph

SpecBuild == InitBuild /\ [][NextBuild]_vars


-----------------------------------------------------------------------------
(* What the claims speak of, stated from the Model Specification alone.     *)

\* the spec of the last build
Built == callerSpecs[call.spec]

\* the terms and levels of a spec in spec order, each with the name its
\* parameter is to carry: b_<term>, u_<term>, u_<term>_<level>
PartsOfTerm(t) ==
    IF t.data.kind = "dict"
    THEN [i \in 1..Len(t.data.levels) |->
             [name |-> "u_" \o t.name \o "_" \o t.data.levels[i].k,
              d |-> t.data.levels[i].v, prior |-> t.prior]]
    ELSE << [name |-> (IF t.random THEN "u_" ELSE "b_") \o t.name,
             d |-> t.data, prior |-> t.prior] >>

RECURSIVE PartsFrom(_, _)
PartsFrom(terms, i) ==
    IF i > Len(terms) THEN <<>> ELSE PartsOfTerm(terms[i]) \o PartsFrom(terms, i + 1)

Parts(s) == PartsFrom(s.terms, 1)

\* the mandatory arguments of the distributions the mapping table knows
Required == [Normal |-> {"mu", "sd"}, Cauchy |-> {"alpha", "beta"},
             HalfNormal |-> {"sd"}, HalfCauchy |-> {"beta"}]

BadNode(p) == p.name \notin DOMAIN Required \/ ~ (Required[p.name] \subseteq Keys(p.args))

RECURSIVE BadTree(_)
BadTree(p) ==
    BadNode(p) \/ \E i \in 1..Len(p.args) : IsPrior(p.args[i].v) /\ BadTree(p.args[i].v)

\* the labels of the nodes of a Prior tree, nested ones first, and the first
\* node in that order that cannot be mapped (the labels are those before it)
RECURSIVE Walk(_, _)
RECURSIVE WalkArgs(_, _, _)
WalkArgs(label, args, i) ==
    IF i > Len(args) THEN [labels |-> <<>>, bad |-> None]
    ELSE IF IsPrior(args[i].v)
    THEN LET w == Walk(label \o "_" \o args[i].k, args[i].v)
             rest == WalkArgs(label, args, i + 1)
         IN  IF w.bad # None THEN w
             ELSE [labels |-> w.labels \o rest.labels, bad |-> rest.bad]
    ELSE WalkArgs(label, args, i + 1)

Walk(label, p) ==
    LET r == WalkArgs(label, p.args, 1)
    IN  IF r.bad # None THEN r
        ELSE IF BadNode(p) THEN [labels |-> r.labels, bad |-> p]
        ELSE [labels |-> Append(r.labels, label), bad |-> None]

\* the labels of all nodes of a tree, nested ones first
RECURSIVE TreeLabels(_, _)
RECURSIVE ArgLabels(_, _, _)
ArgLabels(label, args, i) ==
    IF i > Len(args) THEN <<>>
    ELSE (IF IsPrior(args[i].v) THEN TreeLabels(label \o "_" \o args[i].k, args[i].v) ELSE <<>>)
         \o ArgLabels(label, args, i + 1)

TreeLabels(label, p) == Append(ArgLabels(label, p.args, 1), label)

RECURSIVE LabelsFrom(_, _, _)
LabelsFrom(parts, i, n) ==
    IF i > n THEN <<>>
    ELSE TreeLabels(parts[i].name, parts[i].prior) \o LabelsFrom(parts, i + 1, n)

\* the first term or level of the spec whose prior cannot be mapped
FirstBad(s) == CHOOSE i \in 1..Len(Parts(s)) :
                  /\ BadTree(Parts(s)[i].prior)
                  /\ \A j \in 1..(i - 1) : ~ BadTree(Parts(s)[j].prior)

\* what a call appended to a list
Appended(old, new, reset) == IF reset THEN new ELSE SubSeq(new, Len(old) + 1, Len(new))

AllButLast(q) == SubSeq(q, 1, Len(q) - 1)

-----------------------------------------------------------------------------
(* C1.  A Stan build fails at once, with the error of the mapping, if and   *)
(* only if the prior of some term, or a hyperprior nested in it, names a    *)
(* distribution the mapping table lacks or lacks a mandatory argument of    *)
(* its distribution; the error names that distribution (and the missing     *)
(* arguments); and a build that fails at a term has appended the data       *)
(* entries and products of the terms and levels up to that one, the         *)
(* parameters that were mapped before the failure, and nothing of a later   *)
(* term.  A per-level random effect has at least one level.                 *)

C1_FailureLeaves(s, e, reset) ==
    LET parts == Parts(s)
        f == FirstBad(s)
        w == Walk(parts[f].name, parts[f].prior)
        newData == Appended(data, data', reset)
        newPars == Appended(parameters, parameters', reset)
    IN  /\ e.type = "ValueError"
        /\ e.dist = w.bad.name
        /\ IF w.bad.name \in DOMAIN Required
           THEN e.what = "missing" /\ e.missing = Required[w.bad.name] \ Keys(w.bad.args)
           ELSE e.what = "no distribution"
        /\ NamesOf(newData) = [i \in 1..f |-> parts[i].name \o "_data"]
        /\ Appended(mu, mu', reset) = [i \in 1..f |-> parts[i].name \o "_data * " \o parts[i].name]
        /\ NamesOf(newPars) = LabelsFrom(parts, 1, f - 1) \o w.labels
        /\ Len(Appended(model, model', reset)) = Len(newPars)
        /\ Keys(X') \subseteq (IF reset THEN {} ELSE Keys(X))
                              \cup { parts[i].name \o "_data" : i \in 1..f }
        /\ Appended(transformed_parameters, transformed_parameters', reset) = <<>>

\* the error of a prior that cannot be mapped, raised while the terms are
\* gone through; the only other error of a build is that of the compilation
\* that ends it
IsMappingError(e) == e # None /\ e.what \in {"no distribution", "missing"}

C1_BuildFailsIffBadPrior ==
    [][ (IsStan /\ call'.op = "build") =>
          LET s == callerSpecs[call'.spec]
          IN  /\ IsMappingError(raised') <=> (\E i \in 1..Len(s.terms) : BadTree(s.terms[i].prior))
              /\ IsMappingError(raised') => C1_FailureLeaves(s, raised', call'.reset) ]_vars

\* a build that failed for a missing argument at the first of two terms
C1_Witness ==
    /\ IsStan /\ call.op = "build" /\ raised # None
    /\ raised.what = "missing"
    /\ Len(Built.terms) = 2
    /\ Len(data) = 1

-----------------------------------------------------------------------------
(* C3.  After a Stan build that completes, with reset=True or reset=False   *)
(* and whatever the builds before it, every term or level that added a      *)
(* product to the mean list appears exactly once in the final definition of *)
(* yhat, and yhat is declared with the length of the response of the spec   *)
(* just built.                                                              *)

YhatDecl(tp) == tp[Len(tp) - 1]

YhatDef(tp) == tp[Len(tp)]

C3_YhatOnce ==
    (IsStan /\ call.op = "build" /\ raised = None) =>
        /\ \A i \in 1..Len(mu) : Count(YhatDef(transformed_parameters).sum, mu[i]) = 1
        /\ \A i \in 1..Len(Parts(Built)) :
              Count(YhatDef(transformed_parameters).sum,
                    Parts(Built)[i].name \o "_data * " \o Parts(Built)[i].name) = 1
        /\ YhatDecl(transformed_parameters).name = "yhat"
        /\ YhatDecl(transformed_parameters).type
              = "vector[" \o ToString(Built.y.data.shape[1]) \o "]"

\* a build with reset=False completed for two products and a response of 3
C3_Witness ==
    /\ IsStan /\ call.op = "build" /\ raised = None /\ ~ call.reset
    /\ Len(mu) = 2 /\ mu[1] # mu[2]
    /\ Built.y.data.shape[1] = 3

-----------------------------------------------------------------------------
(* C8.  Prior Expansion, in both back ends, makes one parameter for every   *)
(* node of a Prior tree, the nested ones before the one that uses them, and *)
(* the label of a nested one is the label of its parent, an underscore and  *)
(* the key of the argument.                                                 *)

\* the parameters a build made by expansion, in the order it made them; the
\* graph holds besides, for a positive distribution, the free variable PyMC3
\* adds of itself
C8_Materialized(reset) ==
    IF IsStan
    THEN LET new == NamesOf(Appended(parameters, parameters', reset))
         IN  IF raised' = None THEN AllButLast(new) ELSE new
    ELSE NamesOf(SelectSeq(IF reset THEN model'.nodes
                           ELSE SubSeq(model'.nodes, Len(model.nodes) + 1, Len(model'.nodes)),
                           LAMBDA n : ~ (n.rv = "FreeRV" /\ n.dist \in PmPositive)))

C8_Expected(s) ==
    LabelsFrom(Parts(s), 1, Len(Parts(s)))
    \o (IF IsStan THEN <<>> ELSE TreeLabels(s.y.name, Family.prior))

\* as the spec states it, for every tree: the tree of the first term or level
C8_OneParameterPerNode ==
    [][ call'.op = "build" =>
          LET first == TreeLabels(Parts(callerSpecs[call'.spec])[1].name,
                                  Parts(callerSpecs[call'.spec])[1].prior)
              made == C8_Materialized(call'.reset)
          IN  Len(made) >= Len(first) /\ SubSeq(made, 1, Len(first)) = first ]_vars

\* as the code has it: for the trees of a build whose expansions all return
C8_OneParameterPerNodeExpanded ==
    [][ (call'.op = "build" /\ raised' = None)
        => C8_Materialized(call'.reset) = C8_Expected(callerSpecs[call'.spec]) ]_vars

\* a tree three deep was expanded
C8_Witness ==
    /\ IsStan /\ call.op = "build" /\ raised = None
    /\ \E i \in 1..(Len(parameters) - 2) :
          /\ parameters[i].name = "u_a_b_sd_sd"
          /\ parameters[i + 1].name = "u_a_b_sd"
          /\ parameters[i + 2].name = "u_a_b"

-----------------------------------------------------------------------------
(* C9.  A Stan build of a spec whose one term is a per-level random effect  *)
(* of k levels, c > 1 columns each, adds k data declarations               *)
(* u_<term>_<level>_data and k parameter declarations u_<term>_<level>,     *)
(* each a vector[c], whatever the prior.  The response y and sigma, which   *)
(* every build declares, are not counted.                                   *)

C9_Case(s) ==
    /\ Len(s.terms) = 1
    /\ s.terms[1].data.kind = "dict"
    /\ s.terms[1].data.levels[1].v.shape[2] > 1

LevelLabels(s) ==
    [i \in 1..Len(s.terms[1].data.levels) |->
        "u_" \o s.terms[1].name \o "_" \o s.terms[1].data.levels[i].k]

C9_Data(s, newData) ==
    /\ NamesOf(newData) = [i \in 1..Len(LevelLabels(s)) |-> LevelLabels(s)[i] \o "_data"] \o <<"y">>

\* as the spec states it: k parameter declarations
C9_KParameters ==
    [][ (IsStan /\ call'.op = "build" /\ raised' = None /\ C9_Case(callerSpecs[call'.spec]))
        => LET s == callerSpecs[call'.spec]
               c == s.terms[1].data.levels[1].v.shape[2]
               newPars == AllButLast(Appended(parameters, parameters', call'.reset))
           IN  /\ C9_Data(s, Appended(data, data', call'.reset))
               /\ NamesOf(newPars) = LevelLabels(s)
               /\ \A i \in 1..Len(newPars) : newPars[i].type = "vector[" \o ToString(c) \o "]" ]_vars

\* as the code has it: k vectors, each after one real for every hyperprior
\* nested in the prior
C9_KVectorsAndHyperparameters ==
    [][ (IsStan /\ call'.op = "build" /\ raised' = None /\ C9_Case(callerSpecs[call'.spec]))
        => LET s == callerSpecs[call'.spec]
               c == s.terms[1].data.levels[1].v.shape[2]
               newPars == AllButLast(Appended(parameters, parameters', call'.reset))
           IN  /\ C9_Data(s, Appended(data, data', call'.reset))
               /\ NamesOf(newPars) = LabelsFrom(Parts(s), 1, Len(Parts(s)))
               /\ \A i \in 1..Len(newPars) :
                     newPars[i].type = IF newPars[i].name \in Range(LevelLabels(s))
                                       THEN "vector[" \o ToString(c) \o "]" ELSE "real"
               /\ \A l \in Range(LevelLabels(s)) : Count(NamesOf(newPars), l) = 1 ]_vars

\* 2 levels of 3 columns under a prior with a hyperprior were built
C9_Witness ==
    /\ IsStan /\ call.op = "build" /\ raised = None /\ call.reset
    /\ C9_Case(Built)
    /\ NamesOf(parameters) = <<"u_a_b_sd", "u_a_b", "u_a_a_sd", "u_a_a", "sigma">>
    /\ parameters[2].type = "vector[3]"

-----------------------------------------------------------------------------
(* C4.  A Stan run of n_chains chains returns a trace of n_chains           *)
(* sub-traces, and for every variable whose raw array of draws is           *)
(* n_chains * samples long, sub-trace i holds the draws at the places       *)
(* [i*samples, (i+1)*samples) of that array, in their order.                *)

C4_TraceSlices ==
    (IsStan /\ call.op = "run" /\ raised = None) =>
        LET raw == Extract(fit)
            got == returned.trace.straces
        IN  /\ Len(got) = call.chains
            /\ \A k \in DOMAIN raw :
                  Len(raw[k]) = call.chains * call.samples =>
                     \A i \in 0..(call.chains - 1) :
                        got[i + 1].samples[k] =
                           [j \in 1..call.samples |-> raw[k][i * call.samples + j]]

\* two chains of two draws each, none of them warm-up
C4_Witness ==
    /\ IsStan /\ call.op = "run" /\ raised = None
    /\ call.chains = 2 /\ call.samples = 2 /\ call.warmup = 0
    /\ \E k \in DOMAIN Extract(fit) :
          /\ Len(Extract(fit)[k]) = 4
          /\ returned.trace.straces[2].samples[k] = <<2, 3>>

-----------------------------------------------------------------------------
(* C5.  A Stan build that fails on a prior leaves the program text, the     *)
(* compiled sampler and the retained spec as they were before it, these     *)
(* being assigned only by a build that completes; what it appended to the   *)
(* statement lists, the data payload and the mean list before the failure   *)
(* stays, and a run does not take it away.  The first part is stated of the *)
(* builds that are not called right after a build that failed, which the    *)
(* spec has followed by a reset.                                            *)

IsPrefix(p, q) == Len(p) <= Len(q) /\ SubSeq(q, 1, Len(p)) = p

C5_FailedBuildKeepsModel ==
    [][ /\ (IsStan /\ call'.op = "build" /\ raised' # None
               /\ ~ (call.op = "build" /\ raised # None)) =>
              /\ model_code' = model_code
              /\ stan_model' = stan_model
              /\ spec' = spec
        /\ (IsStan /\ call'.op = "build" /\ IsMappingError(raised')) =>
              /\ IsPrefix(IF call'.reset THEN <<>> ELSE data, data')
              /\ IsPrefix(IF call'.reset THEN <<>> ELSE mu, mu')
              /\ IsPrefix(IF call'.reset THEN <<>> ELSE parameters, parameters')
              /\ IsPrefix(IF call'.reset THEN <<>> ELSE model, model')
              /\ Len(Appended(data, data', call'.reset)) >= 1
              /\ Len(Appended(mu, mu', call'.reset)) >= 1
              /\ Keys(X') # {}
        /\ (IsStan /\ call'.op = "run") =>
              UNCHANGED << parameters, transformed_parameters, data, transformed_data, X,
                           model, mu >> ]_vars

-----------------------------------------------------------------------------
(* C6.  After a reset the Stan back end holds empty statement lists, an     *)
(* empty data payload, an empty mean list, and no program text and no       *)
(* compiled sampler of an earlier build.                                    *)

C6_ResetDestroysSampler ==
    (IsStan /\ call.op = "reset") =>
        /\ parameters = <<>> /\ transformed_parameters = <<>> /\ data = <<>>
        /\ transformed_data = <<>> /\ model = <<>>
        /\ X = <<>> /\ mu = <<>>
        /\ model_code = Unset
        /\ stan_model = Unset

-----------------------------------------------------------------------------
(* C2.  No call on a back end changes a Model Specification of the caller.  *)

C2_SpecNeverMutated == [][callerSpecs' = callerSpecs]_vars

-----------------------------------------------------------------------------
(* C7.  After a graph build that completes, the nodes of the terms and the  *)
(* accumulator correspond one to one: a node b_<term> or u_<term> for each  *)
(* plain term, a node u_<term>_<level> for each level, no other, and the    *)
(* accumulator is the sum of data . node over these nodes in spec order.    *)

\* the nodes made for terms and levels: those made with a shape, the free
\* variable PyMC3 adds of itself for a positive distribution aside
TermNodes(g) ==
    SelectSeq(g.nodes, LAMBDA n : "shape" \in Keys(n.kwargs)
                                  /\ ~ (n.rv = "FreeRV" /\ n.dist \in PmPositive))

C7_OneToOne(s, g, m) ==
    /\ NamesOf(TermNodes(g)) = NamesOf(Parts(s))
    /\ \A i \in 1..Len(Parts(s)) : Count(NamesOf(g.nodes), Parts(s)[i].name) = 1
    /\ m.sum = [i \in 1..Len(Parts(s)) |-> [data |-> Parts(s)[i].d.of, coef |-> Parts(s)[i].name]]

\* as the spec states it: with reset=True or reset=False
C7_NodesMatchAccumulator ==
    (IsPyMC3 /\ call.op = "build" /\ raised = None) => C7_OneToOne(Built, model, mu)

\* as the code has it: for a build that starts on an empty graph
C7_NodesMatchAccumulatorFromEmpty ==
    [][ (IsPyMC3 /\ call'.op = "build" /\ raised' = None
           /\ (call'.reset \/ model.nodes = <<>>))
        => C7_OneToOne(callerSpecs'[call'.spec], model', mu') ]_vars

\* a build with reset=False completed for a random effect of two levels
C7_Witness ==
    /\ IsPyMC3 /\ call.op = "build" /\ raised = None /\ ~ call.reset
    /\ Built.terms[1].data.kind = "dict"
    /\ Len(mu.sum) = 2

-----------------------------------------------------------------------------
(* C10.  The names a graph run suppresses are the names of its trace that   *)
(* are the raw dual of a back-transformed variable (not such a variable's   *)
(* name, and the name of one followed by a suffix) or that are not the name *)
(* of a latent variable of the graph.                                       *)

C10_Suppressed ==
    (IsPyMC3 /\ call.op = "run" /\ raised = None) =>
        LET latent == { UnobservedRVs(model)[i].name : i \in 1..Len(UnobservedRVs(model)) }
            back == { n.name : n \in { x \in Range(model.nodes) : x.rv = "TransformedRV" } }
            IsDual(x) == /\ x \notin back
                         /\ \E t \in back : Len(x) > Len(t) /\ SubSeq(x, 1, Len(t)) = t
        IN  Range(returned.transformed_vars)
               = { x \in Range(trace.varnames) : IsDual(x) \/ x \notin latent }

=============================================================================
